---- MODULE Spec2Model ----
(***************************************************************************)
(* Model of the ticket-manager repository: the overlay service             *)
(* (app.py, TicketProcessor behind the /process route), the overlay CLI    *)
(* (standalone.py, SimpleTicketOverlay) and the ticket generator           *)
(* (complete_qr_extractor.py, CompleteQRExtractor).                        *)
(*                                                                         *)
(* Representation of the numeric types of the source:                      *)
(*  - page_rect.width / page_rect.height are floats; they are kept in      *)
(*    half points (w2 = 2 * width), so that a page rendered with           *)
(*    fitz.Matrix(2, 2) has a raster of exactly w2 x h2 pixels;            *)
(*  - x / 2 (true division) is kept as the numerator x over 2;             *)
(*  - opacity is the double nearest to k / OpacityScale, kept as k;        *)
(*  - qr_scale is kept in halves (all of them exact doubles).              *)
(***************************************************************************)
EXTENDS Integers, Sequences, FiniteSets, TLC

\* ------------------------------------------------------------------ bounds
MaxPages == 2          \* longest input document, in pages
MaxStart == 5          \* largest --start-number tried

\* --------------------------------------------------------------- constants
OpacityScale == 100    \* opacity k stands for the float k / 100
ZOOM == 2              \* fitz.Matrix(2, 2)
DEFAULT_OPACITY == 70  \* opacity=0.7
DEFAULT_PADDING == 15  \* padding=15
TEXT_HEIGHT == 80
SIDE_PADDING == 20
BOTTOM_PADDING == 10

\* ----------------------------------------------------------------- helpers
Max(a, b) == IF a >= b THEN a ELSE b
Min(a, b) == IF a <= b THEN a ELSE b

\* Python int(n / d) for d > 0: truncation toward zero
Trunc(n, d) == IF n >= 0 THEN n \div d ELSE -((-n) \div d)

RECURSIVE Pow2(_)
Pow2(n) == IF n = 0 THEN 1 ELSE 2 * Pow2(n - 1)

RECURSIVE Pow2Mod(_, _)
Pow2Mod(n, m) == IF n = 0 THEN 1 % m ELSE (2 * Pow2Mod(n - 1, m)) % m

\* floor(log2(n / d)) for n, d > 0
RECURSIVE Log2Floor(_, _)
Log2Floor(n, d) == IF n >= 2 * d THEN 1 + Log2Floor(n, 2 * d)
                   ELSE IF n < d THEN Log2Floor(2 * n, d) - 1
                   ELSE 0

(***************************************************************************)
(* IEEE-754 binary64.  The double o nearest to k / OpacityScale is         *)
(* M * 2^-s with s = 52 - floor(log2(k / OpacityScale)) and                *)
(* M = round(k * 2^s / OpacityScale).  DoubleResidue(k) is                 *)
(* k * 2^s - OpacityScale * M: positive when o lies below k / OpacityScale.*)
(***************************************************************************)
DoubleResidue(k) ==
  LET e == Log2Floor(k, OpacityScale)
      r == (k * Pow2Mod(52 - e, OpacityScale)) % OpacityScale
  IN  IF 2 * r > OpacityScale THEN r - OpacityScale ELSE r

(***************************************************************************)
(* int(p * opacity): the correctly rounded double product of the integer   *)
(* p >= 0 and the double nearest k / OpacityScale, truncated.  The product *)
(* can only round across an integer q when p * k / OpacityScale is exactly *)
(* q and o lies below k / OpacityScale; it then rounds up to q iff the     *)
(* deficit p * D / (OpacityScale * 2^s) is at most half an ulp of the      *)
(* binade below q (ties go to q, whose significand is even).               *)
(***************************************************************************)
FloatMulInt(p, k) ==
  LET n == p * k
      q == n \div OpacityScale
  IN  IF n % OpacityScale # 0 \/ q = 0 THEN q
      ELSE LET D == DoubleResidue(k)
               e == Log2Floor(k, OpacityScale)
               j == Log2Floor(2 * q - 1, 2)
           IN  IF D <= 0 \/ 2 * p * D <= OpacityScale * Pow2(j - e)
               THEN q ELSE q - 1

\* a value stored into an 8-bit ('L') sample
Clip8(v) == Max(0, Min(255, v))

\* Python None / a given value
None == <<>>
Some(v) == <<v>>
IsNone(o) == o = <<>>
Val(o) == o[1]

\* ---------------------------------------------------------------- payloads
\* bytes of a decoded symbol; .decode('utf-8') raises on a byte that does
\* not start a UTF-8 sequence
Utf8Valid(bs) == \A i \in 1..Len(bs) : bs[i] < 128

\* obj.data.decode('utf-8') if obj.data else ''
PayloadText(bs) == IF bs = <<>> THEN <<>> ELSE bs

T1 == <<84, 49>>
T2 == <<84, 50>>
BADBYTES == <<84, 255>>

Sym(x, y, w, h, d) == [rect |-> <<x, y, w, h>>, data |-> d]

\* ------------------------------------------------------------ input pages
(***************************************************************************)
(* A page of the input document as the external collaborators see it:      *)
(* w2, h2   page_rect in half points (the raster at zoom 2 is w2 x h2);    *)
(* image_ok cv2.imdecode yields an image (else None: every cv2 / pyzbar    *)
(*          call on it raises);                                            *)
(* direct   symbols pyzbar.decode returns on the buffer as rendered;       *)
(* thresh   symbols pyzbar.decode returns on the thresholded buffer;       *)
(* contours bounding boxes accepted by the contour heuristic.              *)
(***************************************************************************)
PagePlain    == [w2 |-> 32, h2 |-> 32, image_ok |-> TRUE,
                 direct |-> <<>>, thresh |-> <<>>, contours |-> <<>>]
PageOne      == [w2 |-> 13, h2 |-> 12, image_ok |-> TRUE,
                 direct |-> <<Sym(4, 4, 5, 4, T1)>>,
                 thresh |-> <<Sym(4, 4, 5, 4, T1)>>, contours |-> <<>>]
PageTwo      == [w2 |-> 12, h2 |-> 13, image_ok |-> TRUE,
                 direct |-> <<Sym(0, 1, 3, 3, T1), Sym(8, 6, 4, 6, <<>>)>>,
                 thresh |-> <<>>, contours |-> <<<<0, 0, 12, 12>>>>]
PageThresh   == [w2 |-> 12, h2 |-> 12, image_ok |-> TRUE,
                 direct |-> <<>>,
                 thresh |-> <<Sym(6, 2, 5, 5, T2)>>, contours |-> <<>>]
PageContour  == [w2 |-> 12, h2 |-> 12, image_ok |-> TRUE,
                 direct |-> <<>>, thresh |-> <<>>,
                 contours |-> <<<<2, 6, 6, 6>>>>]
PageBadData  == [w2 |-> 12, h2 |-> 12, image_ok |-> TRUE,
                 direct |-> <<Sym(2, 2, 4, 4, T1), Sym(6, 6, 4, 4, BADBYTES)>>,
                 thresh |-> <<Sym(2, 2, 4, 4, T1)>>, contours |-> <<>>]
PageBroken   == [w2 |-> 12, h2 |-> 12, image_ok |-> FALSE,
                 direct |-> <<>>, thresh |-> <<>>, contours |-> <<>>]
\* one QR symbol at raster box (100, 100, 50, 50) on a 100 x 100 page
PageScenario == [w2 |-> 200, h2 |-> 200, image_ok |-> TRUE,
                 direct |-> <<Sym(100, 100, 50, 50, T1)>>,
                 thresh |-> <<>>, contours |-> <<>>]

SmallPages == {PagePlain, PageOne, PageTwo, PageThresh, PageContour,
               PageBadData, PageBroken}

RECURSIVE SeqsUpTo(_, _)
SeqsUpTo(S, n) == IF n = 0 THEN {<<>>}
                  ELSE LET T == SeqsUpTo(S, n - 1)
                       IN  T \cup {Append(t, s) : t \in {u \in T : Len(u) = n - 1}, s \in S}

Docs == (SeqsUpTo(SmallPages, MaxPages) \ {<<>>}) \cup {<<PageScenario>>}

\* <<opacity, padding>> as given on the command line or in the request
OverlayArgs == {<<DEFAULT_OPACITY, DEFAULT_PADDING>>, <<DEFAULT_OPACITY, 1>>,
                <<DEFAULT_OPACITY, -3>>, <<50, 1>>, <<100, 0>>, <<0, 1>>,
                <<150, 1>>}

\* the design image: its alpha channel and its size in pixels
Design(a, w, h) == [alpha |-> a, width |-> w, height |-> h]
Designs == {Design("ramp", 8, 8), Design("opaque", 8, 8)}

\* <<qr_scale in halves, qr_margin, design>> of an extractor run
Layouts == {<<2, 20, Design("opaque", 600, 800)>>,
            <<3, 2, Design("opaque", 40, 30)>>}
Positions == {"left", "right", "both"}
StartNumbers == {None, Some(0), Some(MaxStart)}

\* ------------------------------------------------------------------- state
VARIABLES
  prog,          \* entry point: "service" | "cli" | "extractor" | "function"
  doc,           \* the input document: a sequence of pages
  design,        \* the design image
  opacity,       \* opacity argument (k for k / OpacityScale)
  padding,       \* padding argument
  qr_scale,      \* extractor: --qr-scale, in halves
  qr_margin,     \* extractor: --qr-margin
  qr_position,   \* extractor: --qr-position
  start_number,  \* extractor: --start-number, None when absent
  mask_awaiting, \* extractor: not --no-mask
  pc,            \* position of the run
  page_num,      \* index of the page the loop is at (1-based)
  qr_codes,      \* regions of the detection pass in progress / last finished
                 \* (extractor: for each collected box, its <<page, region>>)
  calls,         \* detection methods invoked in the current pass, in order
  produced,      \* regions each method recorded in the current pass
  raised,        \* methods that raised in the current pass
  pdf_info,      \* service: per page, the pdf_coords of extract_pdf_info
  overlays,      \* overlays inserted so far, one record per insert_image
  all_qr_boxes,  \* extractor: complete boxes collected over all pages
  total_tickets, \* extractor: running ticket counter
  tickets,       \* extractor: output pages created so far
  handles,       \* document handles currently open
  opened,        \* number of fitz.open calls made
  saved,         \* number of completed save calls
  error,         \* "none" or the exception that ended the run
  fin,           \* function specifications: the arguments drawn
  fout           \* function specifications: the result, None before the call

inputs == <<prog, doc, design, opacity, padding, qr_scale, qr_margin,
            qr_position, start_number, mask_awaiting, fin>>
detect == <<qr_codes, calls, produced, raised>>
extract == <<all_qr_boxes, total_tickets, tickets>>
vars   == <<prog, doc, design, opacity, padding, qr_scale, qr_margin,
            qr_position, start_number, mask_awaiting, pc, page_num, qr_codes,
            calls, produced, raised, pdf_info, overlays, all_qr_boxes,
            total_tickets, tickets, handles, opened, saved, error, fin, fout>>

Methods == {"direct", "enhanced", "contour"}
NoProduced == [m \in Methods |-> 0]

\* --------------------------------------------------------------- geometry
\* int(page_rect.width), int(page_rect.height)
PageWidth(pg)  == Trunc(pg.w2, ZOOM)
PageHeight(pg) == Trunc(pg.h2, ZOOM)

\* x / 2: a float, kept as numerator and denominator
FloatDiv(n, d) == <<n, d>>
\* int(f) of such a float
IntOf(f) == Trunc(f[1], f[2])

\* variant: the padding is applied to the near corner only
ProtectionBoundsNearOnly(x, y, w, h, pad, page_width, page_height) ==
  << Max(0, x - pad),
     Max(0, y - pad),
     Min(page_width, x + w),
     Min(page_height, y + h) >>

\* x1, y1, x2, y2 of the padded rectangle around a page-space region
ProtectionBounds(x, y, w, h, pad, page_width, page_height) ==
  << Max(0, x - pad),
     Max(0, y - pad),
     Min(page_width, x + w + pad),
     Min(page_height, y + h + pad) >>

\* ------------------------------------------------------------- compositor
Pixels(W, H) == (0 .. W - 1) \X (0 .. H - 1)

\* alpha channel of the design after resize((page_width, page_height))
DesignAlpha(d, W, H) ==
  [p \in Pixels(W, H) |-> IF d.alpha = "opaque" THEN 255
                          ELSE (p[2] * W + p[1]) % 256]

\* Image.new('L', (W, H), v)
NewMask(W, H, v) == [p \in Pixels(W, H) |-> Clip8(v)]

\* ImageDraw rejects (newer Pillow) or normalises (older Pillow) a box
\* whose second corner lies before the first
Inverted(r) == r[3] < r[1] \/ r[4] < r[2]

\* variant: the far corner is left out of the rectangle
DrawRectangleHalfOpen(alpha, r) ==
  [p \in DOMAIN alpha |->
     IF r[1] <= p[1] /\ p[1] < r[3] /\ r[2] <= p[2] /\ p[2] < r[4]
     THEN 0 ELSE alpha[p]]

\* draw.rectangle([x1, y1, x2, y2], fill=0): both corners inclusive,
\* clipped to the image
DrawRectangle(alpha, r) ==
  LET xa == Min(r[1], r[3])
      xb == Max(r[1], r[3])
      ya == Min(r[2], r[4])
      yb == Max(r[2], r[4])
  IN  [p \in DOMAIN alpha |->
         IF xa <= p[1] /\ p[1] <= xb /\ ya <= p[2] /\ p[2] <= yb
         THEN 0 ELSE alpha[p]]

RECURSIVE DrawAll(_, _)
DrawAll(alpha, rects) ==
  IF rects = <<>> THEN alpha
  ELSE DrawAll(DrawRectangle(alpha, Head(rects)), Tail(rects))

\* alpha = Image.new('L', ..., int(255 * opacity)); one rectangle per region
ProtectedAlpha(W, H, rects, k) == DrawAll(NewMask(W, H, FloatMulInt(255, k)), rects)

\* variant: the table rounds to nearest
PointLutRounded(k) ==
  [p \in 0 .. 255 |-> Clip8((2 * p * k + OpacityScale) \div (2 * OpacityScale))]

\* alpha.point(lambda p: int(p * opacity)): a 256-entry lookup table
PointLut(k) == [p \in 0 .. 255 |-> Clip8(FloatMulInt(p, k))]
UniformAlpha(da, k) == LET lut == PointLut(k) IN [p \in DOMAIN da |-> lut[da[p]]]

\* -------------------------------------------------------------- detection
\* the loop over decoded objects: appends until a payload fails to decode
RECURSIVE DecodeLoop(_, _)
DecodeLoop(objs, acc) ==
  IF objs = <<>> THEN [regions |-> acc, raised |-> FALSE]
  ELSE IF ~Utf8Valid(Head(objs).data) THEN [regions |-> acc, raised |-> TRUE]
  ELSE DecodeLoop(Tail(objs),
                  Append(acc, [bbox |-> Head(objs).rect,
                               data |-> PayloadText(Head(objs).data)]))

\* pyzbar.decode(buffer) followed by the loop; a None image raises at once
DecodePass(pg, objs, acc) ==
  IF ~pg.image_ok THEN [regions |-> acc, raised |-> TRUE]
  ELSE DecodeLoop(objs, acc)

\* _detect_qr_by_contours: its own try/except, payload always ''
detect_qr_by_contours(pg) ==
  IF ~pg.image_ok THEN <<>>
  ELSE [i \in 1 .. Len(pg.contours) |-> [bbox |-> pg.contours[i], data |-> <<>>]]

\* variant: the next method runs whatever was found
NoRegionsYetIgnored(q) == TRUE

\* if not qr_codes:
NoRegionsYet(q) == q = <<>>

\* SimpleTicketOverlay.detect_qr_codes: no exception handler of its own
detect_qr_codes(pg) ==
  IF ~pg.image_ok THEN [regions |-> <<>>, raised |-> TRUE]
  ELSE LET first == DecodeLoop(pg.direct, <<>>)
       IN  IF first.raised THEN first
           ELSE IF NoRegionsYet(first.regions) THEN DecodeLoop(pg.thresh, <<>>)
           ELSE first

\* the dict SimpleTicketOverlay appends for a decoded symbol
QrDict(r) == [x |-> r.bbox[1], y |-> r.bbox[2], width |-> r.bbox[3],
              height |-> r.bbox[4], data |-> r.data]

\* pdf_coords of extract_pdf_info
PdfCoords(r) == [x |-> FloatDiv(r.bbox[1], ZOOM), y |-> FloatDiv(r.bbox[2], ZOOM),
                 width |-> FloatDiv(r.bbox[3], ZOOM),
                 height |-> FloatDiv(r.bbox[4], ZOOM), data |-> r.data]

\* the rectangle apply_overlay protects for one entry of page_data['qr_codes']
OverlayRect(qr, pad, W, H) ==
  ProtectionBounds(IntOf(qr.x), IntOf(qr.y), IntOf(qr.width), IntOf(qr.height),
                   pad, W, H)

\* variant: the halves are rounded up
ScaleBackRoundedUp(qr) ==
  [x |-> (qr.x + 1) \div 2, y |-> (qr.y + 1) \div 2,
   width |-> (qr.width + 1) \div 2, height |-> (qr.height + 1) \div 2]

\* "Scale coordinates back from zoomed image": x = int(qr['x'] / 2), ...
ScaleBack(qr) ==
  [x |-> IntOf(FloatDiv(qr.x, 2)), y |-> IntOf(FloatDiv(qr.y, 2)),
   width |-> IntOf(FloatDiv(qr.width, 2)),
   height |-> IntOf(FloatDiv(qr.height, 2))]

\* the rectangle SimpleTicketOverlay.process_pdf protects for one qr dict
SimpleRect(qr, pad, W, H) ==
  LET c == ScaleBack(qr)
  IN  ProtectionBounds(c.x, c.y, c.width, c.height, pad, W, H)

\* variant: the flat mask is used whether or not the page has regions
PageAlphaAlwaysMask(W, H, rects, d, k) == ProtectedAlpha(W, H, rects, k)

\* the branch on the page's regions: protected mask or uniform opacity
PageAlpha(W, H, rects, d, k) ==
  IF rects # <<>> THEN ProtectedAlpha(W, H, rects, k)
  ELSE UniformAlpha(DesignAlpha(d, W, H), k)

\* the record kept for one page.insert_image(page_rect, ..., overlay=True)
Overlay(n, W, H, raster, rects, alpha) ==
  [page |-> n, width |-> W, height |-> H, raster |-> raster,
   rects |-> rects, alpha |-> alpha, overlay |-> TRUE]

\* --------------------------------------------------------- initial states
Idle ==
  /\ page_num = 0 /\ qr_codes = <<>> /\ calls = <<>> /\ produced = NoProduced
  /\ raised = {} /\ pdf_info = <<>> /\ overlays = <<>> /\ all_qr_boxes = <<>>
  /\ total_tickets = 0 /\ tickets = <<>> /\ handles = {} /\ opened = 0
  /\ saved = 0 /\ error = "none" /\ fout = None

NoExtractorArgs ==
  /\ qr_scale = 2 /\ qr_margin = 20 /\ qr_position = "both"
  /\ start_number = None /\ mask_awaiting = TRUE

InitOverlay ==
  /\ prog \in {"service", "cli"}
  /\ pc = IF prog = "service" THEN "route" ELSE "main"
  /\ doc \in Docs /\ design \in Designs
  /\ \E a \in OverlayArgs : opacity = a[1] /\ padding = a[2]
  /\ NoExtractorArgs /\ fin = None /\ Idle

\* ------------------------------------------------ service: /process route
\* process_overlay: opacity and padding are parsed and passed on as they are
process_overlay ==
  /\ pc = "route"
  /\ pc' = "info_open"
  /\ UNCHANGED <<inputs, page_num, detect, pdf_info, overlays, extract,
                 handles, opened, saved, error, fout>>

\* extract_pdf_info: doc = fitz.open(pdf_path)
extract_pdf_info_open ==
  /\ pc = "info_open"
  /\ handles' = handles \cup {"info_doc"}
  /\ opened' = opened + 1
  /\ pdf_info' = <<>>
  /\ page_num' = 1
  /\ pc' = "m1"
  /\ UNCHANGED <<inputs, detect, overlays, extract, saved, error, fout>>

\* variant: the list of regions is kept on the processor between pages
DirectDecodeCarryOver ==
  /\ pc = "m1"
  /\ LET r == DecodePass(doc[page_num], doc[page_num].direct, qr_codes)
     IN  /\ qr_codes' = r.regions
         /\ calls' = <<"direct">>
         /\ produced' = [NoProduced EXCEPT !["direct"] = Len(r.regions)]
         /\ raised' = IF r.raised THEN {"direct"} ELSE {}
  /\ pc' = "m2"
  /\ UNCHANGED <<inputs, page_num, pdf_info, overlays, extract, handles,
                 opened, saved, error, fout>>

\* _detect_qr_codes, method 1
DirectDecode ==
  /\ pc = "m1"
  /\ LET r == DecodePass(doc[page_num], doc[page_num].direct, <<>>)
     IN  /\ qr_codes' = r.regions
         /\ calls' = <<"direct">>
         /\ produced' = [NoProduced EXCEPT !["direct"] = Len(r.regions)]
         /\ raised' = IF r.raised THEN {"direct"} ELSE {}
  /\ pc' = "m2"
  /\ UNCHANGED <<inputs, page_num, pdf_info, overlays, extract, handles,
                 opened, saved, error, fout>>

\* _detect_qr_codes, method 2
EnhancedDecode ==
  /\ pc = "m2"
  /\ IF NoRegionsYet(qr_codes)
     THEN LET r == DecodePass(doc[page_num], doc[page_num].thresh, qr_codes)
          IN  /\ qr_codes' = r.regions
              /\ calls' = Append(calls, "enhanced")
              /\ produced' = [produced EXCEPT
                                !["enhanced"] = Len(r.regions) - Len(qr_codes)]
              /\ raised' = IF r.raised THEN raised \cup {"enhanced"} ELSE raised
     ELSE UNCHANGED detect
  /\ pc' = "m3"
  /\ UNCHANGED <<inputs, page_num, pdf_info, overlays, extract, handles,
                 opened, saved, error, fout>>

\* _detect_qr_codes, method 3
ContourFallback ==
  /\ pc = "m3"
  /\ IF NoRegionsYet(qr_codes)
     THEN LET found == detect_qr_by_contours(doc[page_num])
          IN  /\ qr_codes' = qr_codes \o found
              /\ calls' = Append(calls, "contour")
              /\ produced' = [produced EXCEPT !["contour"] = Len(found)]
              /\ raised' = IF ~doc[page_num].image_ok
                           THEN raised \cup {"contour"} ELSE raised
     ELSE UNCHANGED detect
  /\ pc' = "info_page"
  /\ UNCHANGED <<inputs, page_num, pdf_info, overlays, extract, handles,
                 opened, saved, error, fout>>

\* extract_pdf_info: the rest of the loop body, after _detect_qr_codes returned
extract_pdf_info_page ==
  /\ pc = "info_page"
  /\ pdf_info' = Append(pdf_info,
        [page_num |-> page_num,
         qr_codes |-> [i \in 1 .. Len(qr_codes) |-> PdfCoords(qr_codes[i])]])
  /\ IF page_num < Len(doc)
     THEN page_num' = page_num + 1 /\ pc' = "m1"
     ELSE page_num' = page_num /\ pc' = "info_close"
  /\ UNCHANGED <<inputs, detect, overlays, extract, handles, opened, saved,
                 error, fout>>

\* extract_pdf_info: doc.close(); return results
extract_pdf_info_close ==
  /\ pc = "info_close"
  /\ handles' = handles \ {"info_doc"}
  /\ pc' = "ov_open"
  /\ UNCHANGED <<inputs, page_num, detect, pdf_info, overlays, extract,
                 opened, saved, error, fout>>

\* apply_overlay: doc = fitz.open(pdf_path); design = Image.open(...)
apply_overlay_open ==
  /\ pc = "ov_open"
  /\ handles' = handles \cup {"doc"}
  /\ opened' = opened + 1
  /\ page_num' = 1
  /\ pc' = "ov_page"
  /\ UNCHANGED <<inputs, detect, pdf_info, overlays, extract, saved, error, fout>>

\* variant: the document is saved as soon as one page is composited
ComposePageSaveEarly(raster, rects, nextpc, savepc) ==
  LET W == PageWidth(doc[page_num])
      H == PageHeight(doc[page_num])
  IN  \E pillow \in {"normalises", "rejects"} :
        IF pillow = "rejects" /\ \E i \in 1 .. Len(rects) : Inverted(rects[i])
        THEN /\ error' = "ValueError"
             /\ pc' = "failed"
             /\ UNCHANGED <<page_num, overlays>>
        ELSE /\ overlays' = Append(overlays,
                   Overlay(page_num, W, H, raster, rects,
                           PageAlpha(W, H, rects, design, opacity)))
             /\ page_num' = page_num /\ pc' = savepc
             /\ UNCHANGED error

\* one page of an overlay loop: mask, putalpha, insert_image
ComposePage(raster, rects, nextpc, savepc) ==
  LET W == PageWidth(doc[page_num])
      H == PageHeight(doc[page_num])
  IN  \E pillow \in {"normalises", "rejects"} :
        IF pillow = "rejects" /\ \E i \in 1 .. Len(rects) : Inverted(rects[i])
        THEN /\ error' = "ValueError"
             /\ pc' = "failed"
             /\ UNCHANGED <<page_num, overlays>>
        ELSE /\ overlays' = Append(overlays,
                   Overlay(page_num, W, H, raster, rects,
                           PageAlpha(W, H, rects, design, opacity)))
             /\ IF page_num < Len(doc)
                THEN page_num' = page_num + 1 /\ pc' = nextpc
                ELSE page_num' = page_num /\ pc' = savepc
             /\ UNCHANGED error

\* apply_overlay: body of the loop over pdf_info['pages']
apply_overlay_page ==
  /\ pc = "ov_page"
  /\ LET qrs == pdf_info[page_num].qr_codes
         W == PageWidth(doc[page_num])
         H == PageHeight(doc[page_num])
     IN  ComposePage([i \in 1 .. Len(qrs) |->
                        <<qrs[i].x[1], qrs[i].y[1], qrs[i].width[1], qrs[i].height[1]>>],
                     [i \in 1 .. Len(qrs) |-> OverlayRect(qrs[i], padding, W, H)],
                     "ov_page", "ov_save")
  /\ UNCHANGED <<inputs, detect, pdf_info, extract, handles, opened, saved, fout>>

\* doc.save(output_path); doc.close(): the write can fail
SaveAndClose(h) ==
  \E written \in BOOLEAN :
    IF written
    THEN /\ saved' = saved + 1
         /\ handles' = handles \ {h}
         /\ pc' = "done"
         /\ UNCHANGED error
    ELSE /\ error' = "SaveError"
         /\ pc' = "failed"
         /\ UNCHANGED <<saved, handles>>

\* apply_overlay: doc.save(output_path); doc.close()
apply_overlay_save ==
  /\ pc = "ov_save"
  /\ SaveAndClose("doc")
  /\ UNCHANGED <<inputs, page_num, detect, pdf_info, overlays, extract,
                 opened, fout>>

\* ------------------------------------------------- standalone.py: the CLI
\* main: if not 0 <= args.opacity <= 1: sys.exit(1)
ValidOpacity(k) == 0 <= k /\ k <= OpacityScale

main_validate ==
  /\ pc = "main"
  /\ pc' = IF ValidOpacity(opacity) THEN "cli_open" ELSE "rejected"
  /\ UNCHANGED <<inputs, page_num, detect, pdf_info, overlays, extract,
                 handles, opened, saved, error, fout>>

\* process_pdf: doc = fitz.open(pdf_path); design = Image.open(...)
process_pdf_open ==
  /\ pc = "cli_open"
  /\ handles' = handles \cup {"doc"}
  /\ opened' = opened + 1
  /\ page_num' = 1
  /\ pc' = "cli_detect"
  /\ UNCHANGED <<inputs, detect, pdf_info, overlays, extract, saved, error, fout>>

\* process_pdf: qr_codes = self.detect_qr_codes(img_data)
process_pdf_detect ==
  /\ pc = "cli_detect"
  /\ LET r == detect_qr_codes(doc[page_num])
     IN  /\ qr_codes' = [i \in 1 .. Len(r.regions) |-> QrDict(r.regions[i])]
         /\ raised' = IF r.raised THEN {"detect_qr_codes"} ELSE {}
         /\ pc' = IF r.raised THEN "failed" ELSE "cli_compose"
         /\ error' = IF r.raised THEN "DetectionError" ELSE error
  /\ UNCHANGED <<inputs, page_num, calls, produced, pdf_info, overlays,
                 extract, handles, opened, saved, fout>>

\* process_pdf: the rest of the loop body
process_pdf_page ==
  /\ pc = "cli_compose"
  /\ LET W == PageWidth(doc[page_num])
         H == PageHeight(doc[page_num])
     IN  ComposePage([i \in 1 .. Len(qr_codes) |->
                        <<qr_codes[i].x, qr_codes[i].y, qr_codes[i].width,
                          qr_codes[i].height>>],
                     [i \in 1 .. Len(qr_codes) |-> SimpleRect(qr_codes[i], padding, W, H)],
                     "cli_detect", "cli_save")
  /\ UNCHANGED <<inputs, detect, pdf_info, extract, handles, opened, saved, fout>>

\* process_pdf: doc.save(output_path); doc.close()
process_pdf_save ==
  /\ pc = "cli_save"
  /\ SaveAndClose("doc")
  /\ UNCHANGED <<inputs, page_num, detect, pdf_info, overlays, extract,
                 opened, fout>>

\* ------------------------------------- complete_qr_extractor.py: tickets
\* the dict extract_complete_qr_boxes keeps for a decoded symbol
QrRegion(r) == [qr_x |-> r.bbox[1] \div 2, qr_y |-> r.bbox[2] \div 2,
                qr_width |-> r.bbox[3] \div 2, qr_height |-> r.bbox[4] \div 2,
                data |-> r.data]

\* variant: the sizes are not limited to the page
ExpandToCompleteBoxUnclamped(qr, pg) ==
  [x |-> Max(0, qr.qr_x - SIDE_PADDING),
   y |-> Max(0, qr.qr_y - TEXT_HEIGHT),
   width |-> qr.qr_width + (2 * SIDE_PADDING),
   height |-> qr.qr_height + TEXT_HEIGHT + BOTTOM_PADDING,
   qr_data |-> qr.data,
   image |-> None]

\* the box built around one region; page_rect.width and .height are floats
\* (pg.w2 / 2, pg.h2 / 2) and the clamped sizes go through int()
ExpandToCompleteBox(qr, pg) ==
  LET box_x == Max(0, Max(0, qr.qr_x - SIDE_PADDING))
      box_y == Max(0, Max(0, qr.qr_y - TEXT_HEIGHT))
      box_width == qr.qr_width + (2 * SIDE_PADDING)
      box_height == qr.qr_height + TEXT_HEIGHT + BOTTOM_PADDING
  IN  [x |-> box_x,
       y |-> box_y,
       width |-> Trunc(Min(2 * box_width, pg.w2 - 2 * box_x), 2),
       height |-> Trunc(Min(2 * box_height, pg.h2 - 2 * box_y), 2),
       qr_data |-> qr.data,
       image |-> None]

\* page.get_pixmap(clip=clip, matrix=fitz.Matrix(2, 2)): the fragment image,
\* kept by its size
ClipImage(box) == Some([width |-> ZOOM * box.width, height |-> ZOOM * box.height])

\* extract_complete_qr_boxes: detection as in the CLI, then one box per region
extract_complete_qr_boxes(pg) ==
  LET r == detect_qr_codes(pg)
      box(i) == ExpandToCompleteBox(QrRegion(r.regions[i]), pg)
  IN  [raised |-> r.raised,
       boxes |-> IF r.raised THEN <<>>
                 ELSE [i \in 1 .. Len(r.regions) |->
                         [box(i) EXCEPT !.image = ClipImage(box(i))]]]

\* total_tickets += 1
NextTicketCount(n) == n + 1

\* variant: the count is not brought back to zero-based
TicketNumberFromCount(start, total) ==
  IF IsNone(start) THEN None ELSE Some(Val(start) + total)

\* ticket_num = start_number + total_tickets - 1 if start_number is not None
TicketNumber(start, total) ==
  IF IsNone(start) THEN None ELSE Some(Val(start) + total - 1)

\* variant: the start number is tested for truth, so that 0 counts as absent
MaskingRequestedTruthy(mask, start) == mask \/ (~IsNone(start) /\ Val(start) # 0)

\* if mask_awaiting or start_number is not None
MaskingRequested(mask, start) == mask \/ ~IsNone(start)

\* int(box_img.width * qr_scale), qr_scale in halves
Scaled(v, scale2) == Trunc(v * scale2, 2)

\* variant: mode 'both' places the left-hand copy only
PositionsToPlaceLeftOnly(position) ==
  IF position = "left" THEN <<"left">>
  ELSE IF position = "right" THEN <<"right">>
  ELSE IF position = "both" THEN <<"left">>
  ELSE <<>>

\* positions_to_place
PositionsToPlace(position) ==
  IF position = "left" THEN <<"left">>
  ELSE IF position = "right" THEN <<"right">>
  ELSE IF position = "both" THEN <<"left", "right">>
  ELSE <<>>

\* variant: the right-hand copy ignores the margin
PlaceAtEdge(position, design_width, design_height, new_width, new_height, margin) ==
  LET box_x == IF position = "left" THEN margin
               ELSE design_width - new_width
      box_y == design_height - new_height - margin
  IN  << IF box_x < 0 THEN margin ELSE box_x,
         IF box_y < 0 THEN margin ELSE box_y >>

\* box_x, box_y of one placement, with the "ensure it fits" replacement
PlaceAt(position, design_width, design_height, new_width, new_height, margin) ==
  LET box_x == IF position = "left" THEN margin
               ELSE design_width - new_width - margin
      box_y == design_height - new_height - margin
  IN  << IF box_x < 0 THEN margin ELSE box_x,
         IF box_y < 0 THEN margin ELSE box_y >>

\* the (x, y) of every insert_image of a fragment on one output page
PlanPlacements(position, design_width, design_height, new_width, new_height, margin) ==
  LET ps == PositionsToPlace(position)
  IN  [i \in 1 .. Len(ps) |->
         PlaceAt(ps[i], design_width, design_height, new_width, new_height, margin)]

InitExtractor ==
  /\ prog = "extractor"
  /\ pc = "ex_main"
  /\ doc \in Docs
  /\ \E l \in Layouts \cup {<<0, 20, Design("opaque", 600, 800)>>} :
        qr_scale = l[1] /\ qr_margin = l[2] /\ design = l[3]
  /\ qr_position \in Positions
  /\ start_number \in StartNumbers
  /\ mask_awaiting \in BOOLEAN
  /\ opacity = DEFAULT_OPACITY /\ padding = DEFAULT_PADDING
  /\ fin = None /\ Idle

\* main: if args.qr_scale <= 0: sys.exit(1)
complete_main_validate ==
  /\ pc = "ex_main"
  /\ pc' = IF qr_scale <= 0 THEN "rejected" ELSE "ex_open"
  /\ UNCHANGED <<inputs, page_num, detect, pdf_info, overlays, extract,
                 handles, opened, saved, error, fout>>

\* process_pdf: doc = fitz.open(pdf_path); ...; output_doc = fitz.open()
complete_process_pdf_open ==
  /\ pc = "ex_open"
  /\ handles' = handles \cup {"doc", "output_doc"}
  /\ opened' = opened + 2
  /\ total_tickets' = 0
  /\ all_qr_boxes' = <<>>
  /\ page_num' = 1
  /\ pc' = "ex_scan"
  /\ UNCHANGED <<inputs, detect, pdf_info, overlays, tickets, saved, error, fout>>

\* process_pdf: one iteration of "First, collect all QR boxes"
complete_scan_page ==
  /\ pc = "ex_scan"
  /\ LET r == extract_complete_qr_boxes(doc[page_num])
     IN  IF r.raised
         THEN /\ error' = "DetectionError"
              /\ raised' = {"extract_complete_qr_boxes"}
              /\ pc' = "failed"
              /\ UNCHANGED <<page_num, all_qr_boxes, qr_codes>>
         ELSE /\ all_qr_boxes' = all_qr_boxes \o r.boxes
              /\ qr_codes' = [i \in 1 .. Len(all_qr_boxes') |->
                                IF i <= Len(all_qr_boxes) THEN qr_codes[i]
                                ELSE <<page_num, i - Len(all_qr_boxes)>>]
              /\ raised' = {}
              /\ IF page_num < Len(doc)
                 THEN page_num' = page_num + 1 /\ pc' = "ex_scan"
                 ELSE page_num' = page_num
                      /\ pc' = IF Len(all_qr_boxes') > 0 THEN "ex_ticket" ELSE "ex_save"
              /\ UNCHANGED error
  /\ UNCHANGED <<inputs, calls, produced, pdf_info, overlays, total_tickets,
                 tickets, handles, opened, saved, fout>>

\* process_pdf: one iteration of "create one ticket per QR code"
complete_ticket ==
  /\ pc = "ex_ticket"
  /\ LET box == all_qr_boxes[Len(tickets) + 1]
         count == NextTicketCount(total_tickets)
         masked == MaskingRequested(mask_awaiting, start_number)
         ticket_num == TicketNumber(start_number, count)
         new_width == Scaled(Val(box.image).width, qr_scale)
         new_height == Scaled(Val(box.image).height, qr_scale)
     IN  /\ total_tickets' = count
         /\ tickets' = Append(tickets,
               [width |-> design.width, height |-> design.height,
                box |-> Len(tickets) + 1,
                qr_data |-> box.qr_data,
                masked |-> masked,
                stamp |-> IF masked THEN ticket_num ELSE None,
                new_width |-> new_width, new_height |-> new_height,
                placements |-> PlanPlacements(qr_position, design.width,
                                 design.height, new_width, new_height, qr_margin)])
         /\ pc' = IF Len(tickets') < Len(all_qr_boxes) THEN "ex_ticket" ELSE "ex_save"
  /\ UNCHANGED <<inputs, page_num, detect, pdf_info, overlays, all_qr_boxes,
                 handles, opened, saved, error, fout>>

\* process_pdf: output_doc.save(output_path); output_doc.close(); doc.close()
\* (PyMuPDF refuses to save a document without pages; any write can fail)
complete_save ==
  /\ pc = "ex_save"
  /\ \E written \in (IF tickets = <<>> THEN {FALSE} ELSE BOOLEAN) :
       IF written
       THEN /\ saved' = saved + 1
            /\ handles' = handles \ {"output_doc", "doc"}
            /\ pc' = "done"
            /\ UNCHANGED error
       ELSE /\ error' = "SaveError"
            /\ pc' = "failed"
            /\ UNCHANGED <<saved, handles>>
  /\ UNCHANGED <<inputs, page_num, detect, pdf_info, overlays, extract,
                 opened, fout>>

\* --------------------------------------- the geometry functions alone
GeoSpan == 200         \* widest page of the function inputs, in half points

GeoPages == {[w2 |-> w, h2 |-> h] :
               w \in {GeoSpan - 110, GeoSpan - 79, GeoSpan},
               h \in {GeoSpan - 40, GeoSpan + 1, GeoSpan + 100}}

\* raster boxes a decoder can return on a page: inside the w2 x h2 raster
GeoBoxes(pg) ==
  {<<x, y, w, h>> :
     x \in {0, 41, 80, pg.w2 - 60, pg.w2 - 2},
     y \in {0, 100, 161, 180, pg.h2 - 30},
     w \in {1, 2, 31, pg.w2},
     h \in {2, 21, pg.h2}} \cup
  {<<x, y, pg.w2 - x, pg.h2 - y>> : x \in {0, 41, 80}, y \in {0, 100, 161}}

ExpandInputs ==
  {[op |-> "expand", page |-> pg,
    qr |-> QrRegion([bbox |-> b, data |-> d])] :
     pg \in GeoPages, b \in UNION {GeoBoxes(q) : q \in GeoPages}, d \in {T1, <<>>}}

PlanInputs ==
  {[op |-> "plan", position |-> pos, design_width |-> dw, design_height |-> dh,
    new_width |-> nw, new_height |-> nh, margin |-> m] :
     pos \in Positions, dw \in {600, 40}, dh \in {800, 30},
     nw \in {100, 12, 45}, nh \in {50, 12, 35}, m \in {20, 0, 2, -5}}

WithinRaster(i) ==
  i.op = "expand" =>
    /\ 2 * i.qr.qr_x < i.page.w2 /\ 2 * i.qr.qr_y < i.page.h2
    /\ 2 * (i.qr.qr_x + i.qr.qr_width) <= i.page.w2
    /\ 2 * (i.qr.qr_y + i.qr.qr_height) <= i.page.h2

MaxRaster == 40        \* largest raster coordinate handed to a conversion

\* raster boxes (x, y, w, h) of decoded symbols, every value 0 .. MaxRaster
\* occurring as an x
RasterBoxes ==
  {<<r, s, (r + s) \div 2, MaxRaster - r>> : r \in 0 .. MaxRaster, s \in {0, 1, 7}}

\* a decoded region handed to one of the three raster-to-page conversions
ConvertInputs ==
  {[op |-> o, bbox |-> b] :
     o \in {"pdf_coords", "scale_back", "qr_region"}, b \in RasterBoxes}

InitFunctions ==
  /\ prog = "function"
  /\ pc = "call"
  /\ fin \in {i \in ExpandInputs \cup PlanInputs : WithinRaster(i)}
             \cup ConvertInputs
  /\ doc = <<>> /\ design = Design("opaque", 8, 8)
  /\ opacity = DEFAULT_OPACITY /\ padding = DEFAULT_PADDING
  /\ NoExtractorArgs /\ Idle

\* one box of extract_complete_qr_boxes
call_expand ==
  /\ pc = "call" /\ fin.op = "expand"
  /\ fout' = Some(ExpandToCompleteBox(fin.qr, fin.page))
  /\ pc' = "returned"
  /\ UNCHANGED <<inputs, page_num, detect, pdf_info, overlays, extract,
                 handles, opened, saved, error>>

\* the placements of one fragment in process_pdf
call_plan ==
  /\ pc = "call" /\ fin.op = "plan"
  /\ fout' = Some(PlanPlacements(fin.position, fin.design_width, fin.design_height,
                                 fin.new_width, fin.new_height, fin.margin))
  /\ pc' = "returned"
  /\ UNCHANGED <<inputs, page_num, detect, pdf_info, overlays, extract,
                 handles, opened, saved, error>>

\* extract_pdf_info: pdf_coords of one region
call_pdf_coords ==
  /\ pc = "call" /\ fin.op = "pdf_coords"
  /\ fout' = Some(PdfCoords([bbox |-> fin.bbox, data |-> T1]))
  /\ pc' = "returned"
  /\ UNCHANGED <<inputs, page_num, detect, pdf_info, overlays, extract,
                 handles, opened, saved, error>>

\* SimpleTicketOverlay.process_pdf: x, y, w, h of one qr dict
call_scale_back ==
  /\ pc = "call" /\ fin.op = "scale_back"
  /\ fout' = Some(ScaleBack(QrDict([bbox |-> fin.bbox, data |-> T1])))
  /\ pc' = "returned"
  /\ UNCHANGED <<inputs, page_num, detect, pdf_info, overlays, extract,
                 handles, opened, saved, error>>

\* extract_complete_qr_boxes: the dict appended to qr_regions
call_qr_region ==
  /\ pc = "call" /\ fin.op = "qr_region"
  /\ fout' = Some(QrRegion([bbox |-> fin.bbox, data |-> T1]))
  /\ pc' = "returned"
  /\ UNCHANGED <<inputs, page_num, detect, pdf_info, overlays, extract,
                 handles, opened, saved, error>>

NextFunctions ==
  \/ call_expand
  \/ call_plan
  \/ call_pdf_coords
  \/ call_scale_back
  \/ call_qr_region

SpecFunctions == InitFunctions /\ [][NextFunctions]_vars

Init == InitOverlay \/ InitExtractor


Next ==
  \/ process_overlay
  \/ extract_pdf_info_open
  \/ DirectDecode
  \/ EnhancedDecode
  \/ ContourFallback
  \/ extract_pdf_info_page
  \/ extract_pdf_info_close
  \/ apply_overlay_open
  \/ apply_overlay_page
  \/ apply_overlay_save
  \/ main_validate
  \/ process_pdf_open
  \/ process_pdf_detect
  \/ process_pdf_page
  \/ process_pdf_save
  \/ complete_main_validate
  \/ complete_process_pdf_open
  \/ complete_scan_page
  \/ complete_ticket
  \/ complete_save

Spec == Init /\ [][Next]_vars

\* ======================================================== overlay alpha
\* round to nearest, halves up, of p * k / OpacityScale
RoundMul(p, k) == (2 * p * k + OpacityScale) \div (2 * OpacityScale)
\* floor of p * k / OpacityScale
FloorMul(p, k) == (p * k) \div OpacityScale

\* the padded, page-clamped rectangle of a raster box, corners inclusive
InPaddedRect(p, box, pad, W, H) ==
  /\ Max(0, box[1] \div 2 - pad) <= p[1]
  /\ p[1] <= Min(W, box[1] \div 2 + box[3] \div 2 + pad)
  /\ Max(0, box[2] \div 2 - pad) <= p[2]
  /\ p[2] <= Min(H, box[2] \div 2 + box[4] \div 2 + pad)

Protected(o, p) ==
  \E i \in 1 .. Len(o.raster) : InPaddedRect(p, o.raster[i], padding, o.width, o.height)

OverlaySet == {overlays[i] : i \in 1 .. Len(overlays)}

\* C1 as stated: on a page with at least one region and an opacity in
\* [0,1], alpha is 0 inside a protection rectangle and round(255*opacity)
\* at every other pixel.
C1_RoundedMask ==
  \A o \in OverlaySet :
    (o.raster # <<>> /\ ValidOpacity(opacity)) =>
      \A p \in DOMAIN o.alpha :
        o.alpha[p] = IF Protected(o, p) THEN 0 ELSE RoundMul(255, opacity)

\* C1 amended: on a page with at least one region, an opacity in [0,1] and
\* a padding >= 0, alpha is 0 at every pixel inside (corners inclusive) a
\* region's padded, page-clamped rectangle and int(255*opacity), the
\* product truncated, at every other pixel.
C1_TruncatedMask ==
  \A o \in OverlaySet :
    (o.raster # <<>> /\ ValidOpacity(opacity) /\ padding >= 0) =>
      \A p \in DOMAIN o.alpha :
        o.alpha[p] = IF Protected(o, p) THEN 0 ELSE FloorMul(255, opacity)

\* a mask with a hole and a translucent remainder where rounding and
\* truncation differ
C1_Witness ==
  \E o \in OverlaySet :
    /\ o.raster # <<>> /\ ValidOpacity(opacity) /\ padding >= 0
    /\ RoundMul(255, opacity) # FloorMul(255, opacity)
    /\ \E p \in DOMAIN o.alpha : Protected(o, p) /\ o.alpha[p] = 0
    /\ \E p \in DOMAIN o.alpha : ~Protected(o, p) /\ o.alpha[p] = FloorMul(255, opacity)

\* ===================================================== detection cascade
Invoked(m) == \E i \in 1 .. Len(calls) : calls[i] = m

\* C2: within a pass of _detect_qr_codes the contour fallback is invoked
\* only if direct and enhanced decode recorded no region, and the enhanced
\* decode only if the direct decode recorded none.
C2_ShortCircuit ==
  prog = "service" =>
    /\ Invoked("contour") => produced["direct"] = 0 /\ produced["enhanced"] = 0
    /\ Invoked("enhanced") => produced["direct"] = 0

\* a finished pass that stopped after the direct decode although the
\* contour heuristic would have found a box on that page
C2_Witness ==
  /\ prog = "service" /\ pc = "info_page"
  /\ calls = <<"direct">> /\ produced["direct"] >= 1
  /\ doc[page_num].contours # <<>>

\* C3 as stated: an error raised inside a detection method never leaves the
\* detector, in any of the three detectors.
C3_DetectionNeverFails == error # "DetectionError"

\* ======================================================== uniform opacity
\* C8 as stated: with no region, alpha is round(design_alpha * opacity).
C8_RoundedUniform ==
  \A o \in OverlaySet :
    (o.raster = <<>> /\ ValidOpacity(opacity)) =>
      \A p \in DOMAIN o.alpha :
        o.alpha[p] = RoundMul(DesignAlpha(design, o.width, o.height)[p], opacity)

\* C8 amended: with no region and an opacity k/100 in [0,1], alpha is
\* int(design_alpha * opacity), the double product truncated: the floor of
\* design_alpha * k / 100 when that is not an integer, that integer or one
\* less when it is, and the design's alpha unchanged for opacity 1.0.
C8_TruncatedUniform ==
  \A o \in OverlaySet :
    (o.raster = <<>> /\ ValidOpacity(opacity)) =>
      \A p \in DOMAIN o.alpha :
        LET a == DesignAlpha(design, o.width, o.height)[p]
        IN  /\ (a * opacity) % OpacityScale # 0 => o.alpha[p] = FloorMul(a, opacity)
            /\ o.alpha[p] \in {FloorMul(a, opacity), FloorMul(a, opacity) - 1}
            /\ o.alpha[p] >= 0
            /\ opacity = OpacityScale => o.alpha[p] = a

\* a page without regions whose design alpha takes every value 0..255,
\* composited at opacity 0.7: 255 -> 178 (not 179) and 90 -> 62 (not 63)
C8_Witness ==
  \E o \in OverlaySet :
    /\ o.raster = <<>> /\ opacity = 70 /\ design.alpha = "ramp"
    /\ {DesignAlpha(design, o.width, o.height)[p] : p \in DOMAIN o.alpha} = 0 .. 255
    /\ \E p \in DOMAIN o.alpha :
         DesignAlpha(design, o.width, o.height)[p] = 255 /\ o.alpha[p] = 178
    /\ \E p \in DOMAIN o.alpha :
         DesignAlpha(design, o.width, o.height)[p] = 90 /\ o.alpha[p] = 62

\* ============================================================= scenario 1
ScenarioRun == doc = <<PageScenario>> /\ opacity = 70 /\ padding = 15

InScenarioRect(p) == 35 <= p[1] /\ p[1] <= 90 /\ 35 <= p[2] /\ p[2] <= 90

\* C9 as stated: raster box (100,100,50,50), zoom 2, opacity 0.7, padding
\* 15: alpha 0 over (35,35)-(90,90) and 179 outside.
C9_Scenario179 ==
  ScenarioRun =>
    \A o \in OverlaySet : \A p \in DOMAIN o.alpha :
      o.alpha[p] = IF InScenarioRect(p) THEN 0 ELSE 179

\* C9 amended: the same run yields alpha 0 over (35,35)-(90,90), corners
\* inclusive, and 178 = int(255 * 0.7) at every pixel outside.
C9_Scenario178 ==
  ScenarioRun =>
    \A o \in OverlaySet : \A p \in DOMAIN o.alpha :
      o.alpha[p] = IF InScenarioRect(p) THEN 0 ELSE 178

C9_Witness ==
  /\ ScenarioRun /\ Len(overlays) = 1
  /\ overlays[1].raster = <<<<100, 100, 50, 50>>>>
  /\ overlays[1].alpha[<<35, 35>>] = 0 /\ overlays[1].alpha[<<90, 90>>] = 0
  /\ overlays[1].alpha[<<34, 35>>] = 178 /\ overlays[1].alpha[<<91, 90>>] = 178

\* ===================================================== opacity validation
\* C10 as stated: with an opacity outside [0,1] no document is opened, no
\* overlay is built and nothing is written, on any entry path.
C10_OpacityRejected ==
  (prog \in {"service", "cli"} /\ ~ValidOpacity(opacity)) =>
    opened = 0 /\ overlays = <<>> /\ saved = 0

\* ================================================================ boxes
BoxSet == {k \in 1 .. Len(all_qr_boxes) : prog = "extractor"}

\* C4 as stated: every protection rectangle and every complete box has
\* x2 >= x1, y2 >= y1 (width, height >= 0) and lies inside
\* [0,page_width] x [0,page_height], for every region, page and padding.
C4_BoxesWithinPage ==
  /\ \A o \in OverlaySet : \A i \in 1 .. Len(o.rects) :
       LET r == o.rects[i]
       IN  /\ 0 <= r[1] /\ r[1] <= r[3] /\ r[3] <= o.width
           /\ 0 <= r[2] /\ r[2] <= r[4] /\ r[4] <= o.height
  /\ \A k \in BoxSet :
       LET b == all_qr_boxes[k]
           pg == doc[qr_codes[k][1]]
       IN  /\ b.width >= 0 /\ b.height >= 0 /\ b.x >= 0 /\ b.y >= 0
           /\ b.x + b.width <= PageWidth(pg) /\ b.y + b.height <= PageHeight(pg)

\* C5: the complete box of a region is x = max(0, x - 20),
\* y = max(0, y - 80), width = min(w + 40, page_width - box.x),
\* height = min(h + 80 + 10, page_height - box.y), page_width and
\* page_height being the whole points of the page, and it carries the
\* region's payload.
C5_CompleteBoxReference ==
  (prog = "function" /\ pc = "returned" /\ fin.op = "expand") =>
    LET b == Val(fout)
        r == fin.qr
        page_width == fin.page.w2 \div 2
        page_height == fin.page.h2 \div 2
    IN  /\ b.y = Max(0, r.qr_y - 80)
        /\ b.x = Max(0, r.qr_x - 20)
        /\ b.width = Min(r.qr_width + 2 * 20, page_width - b.x)
        /\ b.height = Min(r.qr_height + 80 + 10, page_height - b.y)
        /\ b.qr_data = r.data

\* a box clamped on both axes by a page of fractional size, with payload
C5_Witness ==
  /\ prog = "function" /\ pc = "returned" /\ fin.op = "expand"
  /\ fin.page.w2 % 2 = 1 /\ fin.page.h2 % 2 = 1
  /\ Val(fout).x > 0 /\ Val(fout).y > 0
  /\ Val(fout).width < fin.qr.qr_width + 40
  /\ Val(fout).height < fin.qr.qr_height + 90
  /\ Val(fout).qr_data = T1

\* ============================================================== numbering
\* C6: with a start number, the k-th ticket (boxes in page-then-region
\* order) is stamped start + k - 1: the counter advances once per
\* fragment whatever the placement mode, and a finished run has stamped
\* exactly start .. start + N - 1.
C6_ContiguousNumbers ==
  (prog = "extractor" /\ ~IsNone(start_number)) =>
    /\ Len(tickets) = total_tickets
    /\ \A k \in 1 .. Len(tickets) :
         /\ tickets[k].stamp = Some(Val(start_number) + k - 1)
         /\ tickets[k].box = k
    /\ \A j, k \in 1 .. Len(all_qr_boxes) :
         j < k => \/ qr_codes[j][1] < qr_codes[k][1]
                  \/ qr_codes[j][1] = qr_codes[k][1] /\ qr_codes[j][2] < qr_codes[k][2]
    /\ pc = "done" =>
         {Val(tickets[k].stamp) : k \in 1 .. Len(tickets)} =
           Val(start_number) .. Val(start_number) + Len(all_qr_boxes) - 1

\* a finished run in mode 'both' with three tickets from two pages
C6_Witness ==
  /\ prog = "extractor" /\ pc = "done" /\ qr_position = "both"
  /\ start_number = Some(MaxStart)
  /\ Len(tickets) = 3 /\ Len(doc) = 2
  /\ tickets[3].stamp = Some(MaxStart + 2)
  /\ Len(tickets[3].placements) = 2

\* ============================================================== placement
Replaced(v, margin) == IF v < 0 THEN margin ELSE v

\* C7: 'left' gives (margin, H - h - margin), 'right' gives
\* (W - w - margin, H - h - margin), 'both' gives left then right, a
\* negative x or y being replaced by margin; margin 20, page 600 x 800,
\* fragment 100 x 50, 'both' gives (20,730) and (480,730).
C7_Placements ==
  (prog = "function" /\ pc = "returned" /\ fin.op = "plan") =>
    LET m == fin.margin
        y == Replaced(fin.design_height - fin.new_height - m, m)
        left == <<Replaced(m, m), y>>
        right == <<Replaced(fin.design_width - fin.new_width - m, m), y>>
    IN  /\ fin.position = "left" => Val(fout) = <<left>>
        /\ fin.position = "right" => Val(fout) = <<right>>
        /\ fin.position = "both" => Val(fout) = <<left, right>>
        /\ ( /\ fin.position = "both" /\ m = 20
             /\ fin.design_width = 600 /\ fin.design_height = 800
             /\ fin.new_width = 100 /\ fin.new_height = 50 )
           => Val(fout) = << <<20, 730>>, <<480, 730>> >>

C7_Witness ==
  /\ prog = "function" /\ pc = "returned" /\ fin.op = "plan"
  /\ fin.position = "both" /\ fin.margin = 20
  /\ fin.design_width = 600 /\ fin.design_height = 800
  /\ fin.new_width = 100 /\ fin.new_height = 50
  /\ fout = Some(<< <<20, 730>>, <<480, 730>> >>)

\* =========================================================== commit point
OverlayRun == prog \in {"service", "cli"}

\* every page of the document has its overlay, in page order
AllPagesComposited ==
  /\ Len(overlays) = Len(doc)
  /\ \A i \in 1 .. Len(overlays) : overlays[i].page = i

\* every source page was scanned and every collected box has its ticket
AllFragmentsPlaced ==
  /\ page_num = Len(doc)
  /\ Len(tickets) = Len(all_qr_boxes)

\* C11: the save is the single commit point of apply_overlay and of both
\* process_pdf functions: the output is written at most once, only after
\* every page (overlay runs) or every fragment (extractor) was processed;
\* a run that failed wrote nothing and carries an explicit error.
C11_SingleCommit ==
  /\ saved <= 1
  /\ saved = 1 =>
       /\ pc = "done" /\ error = "none"
       /\ OverlayRun => AllPagesComposited
       /\ prog = "extractor" => AllFragmentsPlaced
  /\ pc = "failed" => saved = 0 /\ error # "none"
  /\ (pc \in {"ov_save", "cli_save"}) => AllPagesComposited /\ saved = 0
  /\ pc = "ex_save" => AllFragmentsPlaced /\ saved = 0

\* a run that composited its first page and failed on the second: nothing
\* was written and the error is reported
C11_Witness ==
  /\ OverlayRun /\ pc = "failed" /\ error = "ValueError"
  /\ Len(doc) = 2 /\ Len(overlays) = 1
  /\ saved = 0

\* ======================================================= resource release
Exited == pc \in {"done", "failed", "rejected"}

\* C12 as stated: when a processing call has returned or raised, every
\* document handle it opened is closed, on the error paths as well.
C12_HandlesReleased == Exited => handles = {}

\* ===================================================== raster to page space
Converted ==
  prog = "function" /\ pc = "returned"
  /\ fin.op \in {"pdf_coords", "scale_back", "qr_region"}

\* the converted x, y, width, height as fractions <<numerator, denominator>>
PageValues ==
  LET v == Val(fout)
  IN  IF fin.op = "pdf_coords" THEN <<v.x, v.y, v.width, v.height>>
      ELSE IF fin.op = "scale_back"
      THEN << <<v.x, 1>>, <<v.y, 1>>, <<v.width, 1>>, <<v.height, 1>> >>
      ELSE << <<v.qr_x, 1>>, <<v.qr_y, 1>>, <<v.qr_width, 1>>, <<v.qr_height, 1>> >>

\* C13 as stated: each of the three conversions yields, for every
\* non-negative raster value r, the integer r / 2 truncated.
C13_TruncatedConversion ==
  Converted =>
    \A i \in 1 .. 4 :
      PageValues[i][1] = (fin.bbox[i] \div ZOOM) * PageValues[i][2]

\* C14: for zoom 2 and every non-negative raster value r of a region,
\* 0 <= r - zoom * toPageSpace(r) < zoom.
C14_RoundTrip ==
  Converted =>
    \A i \in 1 .. 4 :
      LET r == fin.bbox[i]
          n == PageValues[i][1]
          d == PageValues[i][2]
      IN  0 <= r * d - ZOOM * n /\ r * d - ZOOM * n < ZOOM * d

\* an odd raster x and an even raster y through the CLI's conversion: the
\* odd one comes back one short, the even one exactly
C14_Witness ==
  /\ Converted /\ fin.op = "scale_back"
  /\ fin.bbox[1] = 5 /\ Val(fout).x = 2
  /\ fin.bbox[2] = 0 /\ Val(fout).y = 0
  /\ fin.bbox[3] = 2 /\ Val(fout).width = 1

\* ================================================= pages without regions
\* detection ran on page i and returned no region
EmptyPage(i) ==
  IF prog = "service"
  THEN i <= Len(pdf_info) /\ pdf_info[i].qr_codes = <<>>
  ELSE LET r == detect_qr_codes(doc[i])
       IN  ~r.raised /\ r.regions = <<>>

\* C15: in an overlay run a page on which detection returned no region
\* does not end the run: it gets one overlay, inserted in overlay mode,
\* without any protection rectangle (the design's alpha scaled by the
\* opacity), the pages are overlaid one by one in page order, and a
\* completed run has saved a document in which every page has exactly one
\* overlay.
C15_EmptyPageOverlaid ==
  OverlayRun =>
    /\ \A i \in 1 .. Len(overlays) :
         /\ overlays[i].page = i /\ overlays[i].overlay
         /\ EmptyPage(i) =>
              /\ overlays[i].rects = <<>>
              /\ \A p \in DOMAIN overlays[i].alpha :
                   LET a == DesignAlpha(design, overlays[i].width,
                                        overlays[i].height)[p]
                   IN  overlays[i].alpha[p] \in
                         {Clip8(FloorMul(a, opacity)), Clip8(FloorMul(a, opacity) - 1)}
    /\ (pc = "failed" /\ error # "SaveError") => ~EmptyPage(page_num)
    /\ (pc \in {"ov_page", "cli_compose"} /\ EmptyPage(page_num)) =>
         Len(overlays) = page_num - 1
    /\ pc = "done" => saved = 1 /\ AllPagesComposited

\* a completed run over a page without regions followed by a page with a
\* region: both overlaid, the first without a hole, and saved
C15_Witness ==
  /\ OverlayRun /\ pc = "done" /\ saved = 1 /\ design.alpha = "ramp"
  /\ Len(doc) = 2 /\ Len(overlays) = 2
  /\ EmptyPage(1) /\ overlays[1].rects = <<>>
  /\ \A p \in DOMAIN overlays[1].alpha :
       overlays[1].alpha[p] = 0 =>
         DesignAlpha(design, overlays[1].width, overlays[1].height)[p] < 2
  /\ overlays[2].rects # <<>>

\* ======================================================= failing methods
\* C16 as stated: in TicketProcessor._detect_qr_codes a method that fails
\* at any point, also after it recorded regions, contributes no region to
\* the result and the next method of the cascade is tried.
C16_FailedMethodContributesNothing ==
  prog = "service" =>
    /\ \A m \in raised : produced[m] = 0
    /\ ("direct" \in raised /\ pc \in {"m3", "info_page"}) => Invoked("enhanced")
    /\ ("enhanced" \in raised /\ pc = "info_page") => Invoked("contour")

\* ============================================================ fit clamping
\* C17 as stated: for every fragment size, design size, margin >= 0 and
\* placement mode, every rectangle at which a fragment is inserted lies
\* within the output page: x >= 0, y >= 0, x + width <= page_width and
\* y + height <= page_height.
C17_PlacementsWithinPage ==
  (prog = "function" /\ pc = "returned" /\ fin.op = "plan" /\ fin.margin >= 0) =>
    \A i \in 1 .. Len(Val(fout)) :
      LET x == Val(fout)[i][1]
          y == Val(fout)[i][2]
      IN  /\ x >= 0 /\ y >= 0
          /\ x + fin.new_width <= fin.design_width
          /\ y + fin.new_height <= fin.design_height

\* ==================================================== page independence
\* the regions _detect_qr_codes returns for a page taken on its own
CascadeRegions(pg) ==
  LET first == DecodePass(pg, pg.direct, <<>>).regions
      second == IF first = <<>> THEN DecodePass(pg, pg.thresh, <<>>).regions
                ELSE first
  IN  IF second = <<>> THEN detect_qr_by_contours(pg) ELSE second

\* the protection rectangles of a page taken on its own
OwnRects(pg) ==
  LET W == PageWidth(pg)
      H == PageHeight(pg)
  IN  IF prog = "service"
      THEN LET rs == CascadeRegions(pg)
           IN  [i \in 1 .. Len(rs) |-> OverlayRect(PdfCoords(rs[i]), padding, W, H)]
      ELSE LET rs == detect_qr_codes(pg).regions
           IN  [i \in 1 .. Len(rs) |-> SimpleRect(QrDict(rs[i]), padding, W, H)]

\* the mask of a page taken on its own, from its size, its regions, the
\* opacity, the padding and the design of the run
OwnMask(pg) ==
  LET W == PageWidth(pg)
      H == PageHeight(pg)
      rects == OwnRects(pg)
  IN  IF rects # <<>>
      THEN [p \in Pixels(W, H) |->
              IF \E i \in 1 .. Len(rects) :
                   /\ Min(rects[i][1], rects[i][3]) <= p[1]
                   /\ p[1] <= Max(rects[i][1], rects[i][3])
                   /\ Min(rects[i][2], rects[i][4]) <= p[2]
                   /\ p[2] <= Max(rects[i][2], rects[i][4])
              THEN 0 ELSE Clip8(FloatMulInt(255, opacity))]
      ELSE UniformAlpha(DesignAlpha(design, W, H), opacity)

\* C18: in an overlay run the mask of page i is a function of page i's own
\* size and regions and of the run's opacity, padding and design: whatever
\* the other pages of the document are, it is the mask that page gets when
\* taken on its own, so two runs that differ on another page give page i
\* the same mask and nothing carries over from page to page.
\* Stated of every step: the overlays made so far are left as they are, and
\* an overlay added for page i is the one page i gets on its own.
C18_PageIndependence ==
  [][OverlayRun =>
       /\ Len(overlays') >= Len(overlays)
       /\ \A i \in 1 .. Len(overlays) : overlays'[i] = overlays[i]
       /\ \A i \in Len(overlays) + 1 .. Len(overlays') :
            /\ overlays'[i].page = i
            /\ overlays'[i].width = PageWidth(doc[i])
            /\ overlays'[i].height = PageHeight(doc[i])
            /\ overlays'[i].rects = OwnRects(doc[i])
            /\ overlays'[i].alpha = OwnMask(doc[i])]_vars

\* a page without regions composited after a page with two regions
C18_Witness ==
  /\ OverlayRun /\ Len(doc) = 2 /\ Len(overlays) = 2
  /\ Len(overlays[1].rects) = 2 /\ overlays[2].rects = <<>>
  /\ overlays[2].alpha = OwnMask(doc[2])
  /\ overlays[1].alpha # overlays[2].alpha

C20_OnePagePerBox ==
  prog = "extractor" =>
    /\ Len(tickets) <= Len(all_qr_boxes)
    /\ total_tickets = Len(tickets)
    /\ \A k \in 1 .. Len(tickets) :
         /\ tickets[k].box = k
         /\ tickets[k].qr_data = all_qr_boxes[k].qr_data
         /\ Len(tickets[k].placements) = IF qr_position = "both" THEN 2 ELSE 1
    /\ \A j, k \in 1 .. Len(all_qr_boxes) :
         j < k => \/ qr_codes[j][1] < qr_codes[k][1]
                  \/ qr_codes[j][1] = qr_codes[k][1] /\ qr_codes[j][2] < qr_codes[k][2]
    /\ (pc \in {"ex_save", "done"}) =>
         Len(tickets) = Len(all_qr_boxes) /\ total_tickets = Len(all_qr_boxes)

\* a saved run in mode right over two pages carrying three symbols
C20_Witness ==
  /\ prog = "extractor" /\ pc = "done" /\ saved = 1 /\ qr_position = "right"
  /\ Len(doc) = 2 /\ Len(all_qr_boxes) = 3 /\ Len(tickets) = 3
  /\ total_tickets = 3
  /\ qr_codes = << <<1, 1>>, <<2, 1>>, <<2, 2>> >>
  /\ \A k \in 1 .. 3 : Len(tickets[k].placements) = 1

====
